---- MODULE Spec2Model ----
(***************************************************************************)
(* Job lifecycle and resilient persistence of arm/ripper/utils.py:         *)
(* database_updater / database_adder (the lock-retry gateway),             *)
(* clean_old_jobs (the reconciliation sweep), check_for_wait, rip_data and *)
(* check_for_dupe_folder (the status writes of a job's own process).       *)
(*                                                                         *)
(* Python values are TLA+ strings: a plain string is a Python str, and the *)
(* bracketed strings below are the non-str objects None, True and False.   *)
(***************************************************************************)
EXTENDS Integers, Sequences, FiniteSets, TLC

\* ------------------------------------------------------------------ bounds
NJobs == 1              \* jobs in the store
MaxWait == 3            \* largest explicit wait_time passed to database_updater
MaxPrefix == 2          \* length of the explicit part of a store answer pattern

\* ------------------------------------------------------- program constants
DefaultWait == 90       \* database_updater(args, job, wait_time=90)
AdderBudget == 90       \* database_adder: for i in range(90)

PyNone == "<None>"
PyTrue == "<True>"
PyFalse == "<False>"
Expired == "<expired>"  \* an attribute the session has to reload before use

Jobs == 1..NJobs
Fields == {"status", "errors", "title_manual", "hasnicetitle", "updated"}
Terminal == {"fail", "success"}

\* the answers the store gives to one commit attempt
Outcomes == {"ok", "locked", "error"}

VARIABLES
    db,       \* the store: committed row of every job
    mem,      \* the owner session's in-memory job object, per job
    dirty,    \* the owner session's modified and uncommitted attributes, per job
    gw,       \* the database_updater / database_adder call in progress
    own,      \* the ripper process of every job: where it is, its locals
    procs,    \* the process table at every job's recorded PID
    sweep,    \* the process running clean_old_jobs, with its own session
    calls,    \* the calls the ripper processes have made into the module
    guard     \* a starting run: the job table it finds, its duplicate checks

vars == <<db, mem, dirty, gw, own, procs, sweep, calls, guard>>
life == <<own, procs, sweep, calls, guard>>

\* ------------------------------------------------------------- the session

\* job.<k> as the owner's session sees it: an expired attribute is reloaded
View(j, k) == IF mem[j][k] = Expired THEN db[j][k] ELSE mem[j][k]

\* setattr(job, key, value) for every item of a dict
SetAttrs(obj, items) ==
    [k \in Fields |-> IF k \in DOMAIN items THEN items[k] ELSE obj[k]]

\* what a successful db.session.commit() leaves in the store: the modified
\* attributes of the object, and no other column
Flush(row, obj, mods) ==
    [k \in Fields |-> IF k \in mods THEN obj[k] ELSE row[k]]

\* the session after a commit or a rollback: every attribute expired
AllExpired == [k \in Fields |-> Expired]

\* ------------------------------------------------- the store's answers
\* The answers of the store to the successive commit attempts of one call:
\* an explicit prefix, then the same answer for every later attempt.
Prefixes == UNION {[1..n -> Outcomes] : n \in 0..MaxPrefix}
Patterns == [prefix : Prefixes, tail : Outcomes]

\* the answer to commit attempt number n (counted from 0)
OutcomeAt(pat, n) ==
    IF n < Len(pat.prefix) THEN pat.prefix[n + 1] ELSE pat.tail

\* --------------------------------------------- database_updater / _adder
\* The loop state of one call: i is the loop variable, brk says the loop was
\* left by break; attempts, sleeps and oks count db.session.commit() calls,
\* time.sleep(1) calls and commits that succeeded.
LoopStart ==
    [i |-> 0, brk |-> FALSE, attempts |-> 0, sleeps |-> 0, oks |-> 0,
     result |-> "none"]

\* raise RuntimeError(str(error)) from error
Raise(ls) ==
    [ls EXCEPT !.result = "RuntimeError", !.attempts = ls.attempts + 1]

\* a loop body that would sleep and retry after every exception
UpdaterIterRetryAll(ls, o) ==
    IF o = "ok"
    THEN [ls EXCEPT !.i = ls.i + 1, !.attempts = ls.attempts + 1,
                    !.oks = ls.oks + 1]
    ELSE [ls EXCEPT !.i = ls.i + 1, !.attempts = ls.attempts + 1,
                    !.sleeps = ls.sleeps + 1]

\* one iteration of the loop of database_updater, the commit answering o
UpdaterIter(ls, o) ==
    CASE o = "ok" ->
            [ls EXCEPT !.i = ls.i + 1, !.attempts = ls.attempts + 1,
                       !.oks = ls.oks + 1]
      [] o = "locked" ->
            [ls EXCEPT !.i = ls.i + 1, !.attempts = ls.attempts + 1,
                       !.sleeps = ls.sleeps + 1]
      [] OTHER -> Raise(ls)

\* one iteration of the loop of database_adder
AdderIter(ls, o) ==
    CASE o = "ok" ->
            [ls EXCEPT !.brk = TRUE, !.attempts = ls.attempts + 1,
                       !.oks = ls.oks + 1]
      [] o = "locked" ->
            [ls EXCEPT !.i = ls.i + 1, !.attempts = ls.attempts + 1,
                       !.sleeps = ls.sleeps + 1]
      [] OTHER -> Raise(ls)

Iter(fn, ls, o) == IF fn = "adder" THEN AdderIter(ls, o) ELSE UpdaterIter(ls, o)

\* the loop is over: range(budget) is exhausted or break was executed
LoopOver(ls, budget) == ls.brk \/ ls.i >= budget

\* both functions end with 'return True' once the loop is over
ReturnTrue(ls) == [ls EXCEPT !.result = "True"]

\* a whole call, run to its end against the answers of pat
RECURSIVE RunLoop(_, _, _, _)
RunLoop(fn, ls, budget, pat) ==
    IF ls.result # "none" THEN ls
    ELSE IF LoopOver(ls, budget) THEN ReturnTrue(ls)
    ELSE RunLoop(fn, Iter(fn, ls, OutcomeAt(pat, ls.attempts)), budget, pat)

\* ------------------------------------------------------------ the gateway
\* a ripper process that has called nothing yet. Of rip_data it keeps how the
\* block copy ended (dd), the staging directory and the .part file; ret is the
\* result of its last call, exc the exception that left the module or the
\* reason of its sys.exit, code the exit code of the process.
Own0 ==
    [pc |-> "idle", stage |-> 0, sleep_time |-> 0, ceiling |-> 0,
     staging |-> "none", part |-> FALSE, dd |-> "none", ret |-> "none",
     exc |-> "none", code |-> 0]

\* the sweep before clean_old_jobs is called. Of its session, objs and mods
\* are the attributes it has assigned and not yet committed; seen is what it
\* found at each job's PID; ret is what the call returned. Over the calls,
\* fixed holds the jobs whose stored status a call changed to 'fail'.
Sweep0 ==
    [pc |-> "idle", todo |-> <<>>, seen |-> [j \in Jobs |-> "none"],
     objs |-> [j \in Jobs |-> AllExpired], mods |-> [j \in Jobs |-> {}],
     ret |-> "none", fixed |-> {}]

\* the job of a starting run, as far as the duplicate checks use it
GuardJob0 ==
    [crc_id |-> PyNone, label |-> "DISC_LABEL", status |-> "active",
     title |-> PyNone, year |-> PyNone, poster_url |-> PyNone,
     video_type |-> "unknown", hasnicetitle |-> PyFalse]

\* check_for_dupe_folder has not been called: what a call is given and meets
\* (d at its makedirs, o at its commit), the branch it takes, and the stored
\* status before it
NoFolderCall ==
    [called |-> FALSE, job |-> 1, d |-> "made", have_dupes |-> FALSE,
     allow |-> FALSE, o |-> "ok", decision |-> "none", before |-> "none"]

\* check_for_wait has not been called: what a call is given (manual_wait,
\* and the ceiling it reads), the ticks it has slept, how its loop ended and
\* whether it has returned
NoWaitCall ==
    [called |-> FALSE, job |-> 1, manual_wait |-> FALSE, ceiling |-> 0,
     ticks |-> 0, ended |-> "none", returned |-> FALSE]

\* no run is starting. table holds the rows of the other jobs in the order
\* the store returns them; row is the stored record of the run's own job and
\* obj the job object of its session; code is the exit code of an abort;
\* sweeps counts its calls of clean_old_jobs that have returned.
Guard0 ==
    [pc |-> "none", table |-> <<>>, dev_path |-> "/dev/sr0",
     row |-> GuardJob0, obj |-> GuardJob0, code |-> 0,
     is_dup |-> "none", results |-> <<>>, queried |-> FALSE,
     folder |-> NoFolderCall, wait |-> NoWaitCall, sweeps |-> 0]

Row0 ==
    [status |-> "identifying", errors |-> PyNone, title_manual |-> PyNone,
     hasnicetitle |-> PyFalse, updated |-> PyFalse]

\* the job whose process calls the gateway
Caller == CHOOSE j \in Jobs : \A k \in Jobs : j <= k

GwIdle ==
    [fn |-> "none", job |-> Caller, isdict |-> TRUE, keys |-> {}, wait |-> 0,
     pat |-> [prefix |-> <<>>, tail |-> "ok"], ls |-> LoopStart,
     before |-> Row0, hadDirty |-> FALSE, added |-> FALSE]

\* the dicts passed to database_updater: rip_data's failure record, an empty
\* dict, and the manual-title flags
RipFailArgs == [k \in {"status", "errors"} |->
                   IF k = "status" THEN "fail" ELSE "Data rip failed"]
DictArgs == {RipFailArgs, [k \in {"updated"} |-> PyTrue], [k \in {} |-> PyNone]}

WaitTimes == (0..MaxWait) \cup {DefaultWait}

\* direct assignments a caller makes to the job object before it commits
AttrWrites == {<<"status", "waiting">>, <<"hasnicetitle", PyTrue>>}

\* one call is followed from its entry to its end
GwFree == gw.fn = "none"

\* job.<k> = v, not yet committed
SetAttribute(j, k, v) ==
    /\ GwFree
    /\ mem' = [mem EXCEPT ![j][k] = v]
    /\ dirty' = [dirty EXCEPT ![j] = @ \cup {k}]
    /\ UNCHANGED <<db, gw, life>>

\* a rollback that would leave the pending changes in the session
RollbackKeepsPending(j) ==
    /\ mem' = mem
    /\ dirty' = dirty

\* db.session.rollback(): pending changes are dropped, the objects expired
Rollback(j) ==
    /\ mem' = [mem EXCEPT ![j] = AllExpired]
    /\ dirty' = [dirty EXCEPT ![j] = {}]

\* database_updater(args, job, wait_time) with args not a dict
UpdaterCallNoDict(j, w, pat) ==
    /\ GwFree
    /\ Rollback(j)
    /\ gw' = [GwIdle EXCEPT !.fn = "updater", !.job = j, !.isdict = FALSE,
                            !.wait = w, !.pat = pat, !.before = db[j],
                            !.hadDirty = dirty[j] # {},
                            !.ls = [LoopStart EXCEPT !.result = "False"]]
    /\ UNCHANGED <<db, life>>

\* database_updater(args, job, wait_time) with a dict: the setattr loop
UpdaterCall(j, items, w, pat) ==
    /\ GwFree
    /\ mem' = [mem EXCEPT ![j] = SetAttrs(mem[j], items)]
    /\ dirty' = [dirty EXCEPT ![j] = @ \cup DOMAIN items]
    /\ gw' = [GwIdle EXCEPT !.fn = "updater", !.job = j, !.keys = DOMAIN items,
                            !.wait = w, !.pat = pat, !.before = db[j],
                            !.hadDirty = dirty[j] # {}]
    /\ UNCHANGED <<db, life>>

\* database_adder(obj_class): the entity is new, the loop starts
AdderCall(j, pat) ==
    /\ GwFree
    /\ gw' = [GwIdle EXCEPT !.fn = "adder", !.job = j, !.wait = AdderBudget,
                            !.pat = pat, !.before = db[j],
                            !.hadDirty = dirty[j] # {}]
    /\ UNCHANGED <<db, mem, dirty, life>>

\* a commit that would roll the session back when the store refuses it
CommitSessionRollsBack(j, o) ==
    IF o = "ok"
    THEN /\ db' = [db EXCEPT ![j] = Flush(db[j], mem[j], dirty[j])]
         /\ mem' = [mem EXCEPT ![j] = AllExpired]
         /\ dirty' = [dirty EXCEPT ![j] = {}]
    ELSE /\ Rollback(j)
         /\ UNCHANGED db

\* a db.session.commit() of job j's owner session that the store answers o
CommitSession(j, o) ==
    IF o = "ok"
    THEN /\ db' = [db EXCEPT ![j] = Flush(db[j], mem[j], dirty[j])]
         /\ mem' = [mem EXCEPT ![j] = AllExpired]
         /\ dirty' = [dirty EXCEPT ![j] = {}]
    ELSE UNCHANGED <<db, mem, dirty>>

GwRunning == gw.fn # "none" /\ gw.ls.result = "none"

\* one pass through the try/except of the running call
GatewayAttempt ==
    /\ GwRunning
    /\ ~LoopOver(gw.ls, gw.wait)
    /\ LET o == OutcomeAt(gw.pat, gw.ls.attempts) IN
          /\ CommitSession(gw.job, o)
          /\ gw' = [gw EXCEPT !.ls = Iter(gw.fn, gw.ls, o),
                              !.added = gw.added \/ (gw.fn = "adder" /\ o = "ok")]
    /\ UNCHANGED life

\* the loop is over: 'successfully written', return True
GatewayReturn ==
    /\ GwRunning
    /\ LoopOver(gw.ls, gw.wait)
    /\ gw' = [gw EXCEPT !.ls = ReturnTrue(gw.ls)]
    /\ UNCHANGED <<db, mem, dirty, life>>

InitDb ==
    /\ \E s \in {"identifying", "active"} :
          db = [j \in Jobs |-> [Row0 EXCEPT !.status = s]]
    /\ mem = [j \in Jobs |-> AllExpired]
    /\ dirty = [j \in Jobs |-> {}]
    /\ gw = GwIdle
    /\ own = [j \in Jobs |-> Own0]
    /\ procs = [j \in Jobs |-> "owner"]
    /\ sweep = Sweep0
    /\ calls = 0
    /\ guard = Guard0

NextDb ==
    \/ \E a \in AttrWrites : SetAttribute(Caller, a[1], a[2])
    \/ \E w \in WaitTimes, pat \in Patterns : UpdaterCallNoDict(Caller, w, pat)
    \/ \E items \in DictArgs, w \in WaitTimes, pat \in Patterns :
          UpdaterCall(Caller, items, w, pat)
    \/ \E pat \in Patterns : AdderCall(Caller, pat)
    \/ GatewayAttempt
    \/ GatewayReturn

SpecDb == InitDb /\ [][NextDb]_vars

\* ------------------------------------------------ the ripper's process
TickSeconds == 5        \* time.sleep(5); sleep_time += 5
MaxManualWait == 7      \* largest configured MANUAL_WAIT_TIME
MaxCalls == 3           \* calls into the module the ripper processes make in all

\* the values of cfg["MANUAL_WAIT_TIME"]
Ceilings == {0, TickSeconds, MaxManualWait}

Alive(j) == procs[j] = "owner" /\ own[j].pc \notin {"exited", "aborted", "killed"}

\* the process of job j is between two calls and makes the next one. With
\* ordered, its calls follow the lifecycle: check_for_wait, then the rip, then
\* the final status; otherwise they come in any order.
CanCall(j, ordered, stage) ==
    /\ Alive(j)
    /\ own[j].pc = "idle"
    /\ calls < MaxCalls
    /\ ordered => own[j].stage = stage
    /\ calls' = calls + 1

\* the stage of the lifecycle after a call
After(j, ordered) == IF ordered THEN own[j].stage + 1 ELSE 0

\* job.<k> = v for the items, then db.session.commit() in the owner's
\* session, the store answering o; an answer other than ok is an exception
AssignAndCommit(j, items, o) ==
    IF o = "ok"
    THEN /\ db' = [db EXCEPT ![j] = Flush(db[j], SetAttrs(mem[j], items),
                                          dirty[j] \cup DOMAIN items)]
         /\ mem' = [mem EXCEPT ![j] = AllExpired]
         /\ dirty' = [dirty EXCEPT ![j] = {}]
    ELSE /\ mem' = [mem EXCEPT ![j] = SetAttrs(mem[j], items)]
         /\ dirty' = [dirty EXCEPT ![j] = @ \cup DOMAIN items]
         /\ UNCHANGED db

StatusOnly(s) == [k \in {"status"} |-> s]

\* the process is gone, with its session and its locals
Gone(j, how, code) ==
    /\ own' = [own EXCEPT ![j] = [Own0 EXCEPT !.pc = how, !.code = code]]
    /\ procs' = [procs EXCEPT ![j] = "none"]

\* sys.exit() of the module: the process is gone, exc keeping why it gave up
Abort(j, why, code) ==
    /\ own' = [own EXCEPT ![j] = [Own0 EXCEPT !.pc = "aborted", !.code = code,
                                              !.exc = why]]
    /\ procs' = [procs EXCEPT ![j] = "none"]

\* the body under 'if cfg["MANUAL_WAIT"]', up to the loop: status 'waiting'
\* is committed, the store answering o, and sleep_time = 0
CfwWaiting(j, ordered, o) ==
    /\ AssignAndCommit(j, StatusOnly("waiting"), o)
    /\ IF o = "ok"
       THEN \E wait_time \in Ceilings :
               own' = [own EXCEPT ![j].stage = After(j, ordered),
                                  ![j].sleep_time = 0,
                                  ![j].ceiling = wait_time,
                                  ![j].ret = "none",
                                  ![j].pc = "cfw_loop"]
       ELSE own' = [own EXCEPT ![j].stage = After(j, ordered),
                               ![j].ret = "raised",
                               ![j].exc = o,
                               ![j].pc = "raised"]

\* a check_for_wait that would wait whatever cfg["MANUAL_WAIT"] says
CfwEnterAlwaysWaits(j, ordered, manual_wait, o) ==
    /\ CanCall(j, ordered, 0)
    /\ CfwWaiting(j, ordered, o)
    /\ UNCHANGED <<gw, procs, sweep>>

\* check_for_wait(job, config) with cfg["MANUAL_WAIT"] = manual_wait, up to
\* the loop: nothing when it is off, and the function returns
CfwEnterOn(j, ordered, manual_wait, o) ==
    /\ CanCall(j, ordered, 0)
    /\ IF manual_wait
       THEN CfwWaiting(j, ordered, o)
       ELSE /\ own' = [own EXCEPT ![j].stage = After(j, ordered),
                                  ![j].ret = "None"]
            /\ UNCHANGED <<db, mem, dirty>>
    /\ UNCHANGED <<gw, procs, sweep>>

\* a call of check_for_wait by the process of job j; the answer of the store
\* is not varied when nothing is committed
CfwEnter(j, ordered) ==
    /\ \/ \E o \in Outcomes : CfwEnterOn(j, ordered, TRUE, o)
       \/ CfwEnterOn(j, ordered, FALSE, "ok")
    /\ UNCHANGED guard

\* a loop that would set the flags and go on sleeping
CfwTickNoBreak(j) ==
    /\ Alive(j)
    /\ own[j].pc = "cfw_loop"
    /\ own[j].sleep_time < own[j].ceiling
    /\ IF db[j].title_manual \notin {PyNone, ""}
       THEN /\ mem' = [mem EXCEPT ![j] = [db[j] EXCEPT !.updated = PyTrue,
                                                       !.hasnicetitle = PyTrue]]
            /\ dirty' = [dirty EXCEPT ![j] = {"updated", "hasnicetitle"}]
       ELSE /\ mem' = [mem EXCEPT ![j] = db[j]]
            /\ dirty' = [dirty EXCEPT ![j] = {}]
    /\ own' = [own EXCEPT ![j].sleep_time = @ + TickSeconds]
    /\ UNCHANGED <<db, gw, guard, procs, sweep, calls>>

\* one pass of the while loop: sleep 5, refresh the job, look at title_manual
CfwTickOn(j) ==
    /\ Alive(j)
    /\ own[j].pc = "cfw_loop"
    /\ own[j].sleep_time < own[j].ceiling
    /\ IF db[j].title_manual \notin {PyNone, ""}
       THEN /\ mem' = [mem EXCEPT ![j] = [db[j] EXCEPT !.updated = PyTrue,
                                                       !.hasnicetitle = PyTrue]]
            /\ dirty' = [dirty EXCEPT ![j] = {"updated", "hasnicetitle"}]
            /\ own' = [own EXCEPT ![j].sleep_time = @ + TickSeconds,
                                  ![j].pc = "cfw_active"]
       ELSE /\ mem' = [mem EXCEPT ![j] = db[j]]
            /\ dirty' = [dirty EXCEPT ![j] = {}]
            /\ own' = [own EXCEPT ![j].sleep_time = @ + TickSeconds]
    /\ UNCHANGED <<db, gw, procs, sweep, calls>>

CfwTick(j) == CfwTickOn(j) /\ UNCHANGED guard

\* the while loop is over: by break, or sleep_time has reached the ceiling
LoopLeft(j) ==
    \/ own[j].pc = "cfw_active"
    \/ own[j].pc = "cfw_loop" /\ own[j].sleep_time >= own[j].ceiling

\* a check_for_wait that would return after the loop as it is
CfwReturnsWaiting(j, o) ==
    /\ Alive(j)
    /\ LoopLeft(j)
    /\ CommitSession(j, o)
    /\ own' = [own EXCEPT ![j].ret = IF o = "ok" THEN "None" ELSE "raised",
                          ![j].pc = IF o = "ok" THEN "idle" ELSE "raised",
                          ![j].exc = IF o = "ok" THEN "none" ELSE o,
                          ![j].sleep_time = 0, ![j].ceiling = 0]
    /\ UNCHANGED <<gw, procs, sweep, calls>>

\* after the loop: status 'active' is committed, check_for_wait returns
CfwActiveOn(j, o) ==
    /\ Alive(j)
    /\ LoopLeft(j)
    /\ AssignAndCommit(j, StatusOnly("active"), o)
    /\ own' = [own EXCEPT ![j].ret = IF o = "ok" THEN "None" ELSE "raised",
                          ![j].pc = IF o = "ok" THEN "idle" ELSE "raised",
                          ![j].exc = IF o = "ok" THEN "none" ELSE o,
                          ![j].sleep_time = 0, ![j].ceiling = 0]
    /\ UNCHANGED <<gw, procs, sweep, calls>>

CfwActive(j, o) == CfwActiveOn(j, o) /\ UNCHANGED guard

\* the ways a database_updater(args, job) with the default wait_time can end,
\* over the answers the store may give: its result, and whether one of its
\* commit attempts succeeded
UpdaterEnds ==
    {[result |-> r.result, committed |-> r.oks > 0] :
        r \in {RunLoop("updater", LoopStart, DefaultWait, pat) : pat \in Patterns}}

\* a whole database_updater(items, job) of the owner of j that ends as end:
\* the setattr loop, then the commit loop
UpdaterEffect(j, items, end) ==
    IF end.committed
    THEN /\ db' = [db EXCEPT ![j] = Flush(db[j], SetAttrs(mem[j], items),
                                          dirty[j] \cup DOMAIN items)]
         /\ mem' = [mem EXCEPT ![j] = AllExpired]
         /\ dirty' = [dirty EXCEPT ![j] = {}]
    ELSE /\ mem' = [mem EXCEPT ![j] = SetAttrs(mem[j], items)]
         /\ dirty' = [dirty EXCEPT ![j] = @ \cup DOMAIN items]
         /\ UNCHANGED db

\* what the makedirs of a call meet: the directory is made; it exists and
\* the alternate is made; both exist; os.makedirs raises OSError
DirOutcomes == {"made", "alternate", "both_exist", "oserror"}

\* rip_data. The staging directory is made, under the label or under
\* label_<time> when that exists; make_dir exits the process on an OSError,
\* rip_data exits it when the alternate directory exists too. Then dd: on
\* exit code 0 the .part file is renamed into the destination; otherwise it
\* is unlinked (which raises when dd never created it) and status 'fail'
\* with the error goes through database_updater. At the end the staging
\* directory is removed, an OSError of rmtree being only logged.
RipData(j, ordered) ==
    /\ CanCall(j, ordered, 1)
    /\ \E d \in DirOutcomes :
          CASE d = "both_exist" ->
                 /\ Abort(j, "alternate_exists", 0)
                 /\ UNCHANGED <<db, mem, dirty>>
            [] d = "oserror" ->
                 /\ Abort(j, "makedirs_oserror", 1)
                 /\ UNCHANGED <<db, mem, dirty>>
            [] OTHER ->
                 \E dd \in {"ok", "failed", "failed_no_part"} :
                    CASE dd = "ok" ->
                           /\ \E removed \in BOOLEAN :
                                 own' = [own EXCEPT
                                           ![j].stage = After(j, ordered),
                                           ![j].ret = "True",
                                           ![j].dd = dd,
                                           ![j].part = FALSE,
                                           ![j].staging = IF removed THEN "removed"
                                                          ELSE "present"]
                           /\ UNCHANGED <<db, mem, dirty, procs>>
                      [] dd = "failed_no_part" ->
                           /\ own' = [own EXCEPT
                                        ![j].stage = After(j, ordered),
                                        ![j].ret = "raised", ![j].pc = "raised",
                                        ![j].dd = dd,
                                        ![j].exc = "FileNotFoundError",
                                        ![j].part = FALSE, ![j].staging = "present"]
                           /\ UNCHANGED <<db, mem, dirty, procs>>
                      [] OTHER ->
                           \E end \in UpdaterEnds :
                              /\ UpdaterEffect(j, RipFailArgs, end)
                              /\ IF end.result = "True"
                                 THEN \E removed \in BOOLEAN :
                                         own' = [own EXCEPT
                                                   ![j].stage = After(j, ordered),
                                                   ![j].ret = "False",
                                                   ![j].dd = dd,
                                                   ![j].part = FALSE,
                                                   ![j].staging = IF removed THEN "removed"
                                                                  ELSE "present"]
                                 ELSE own' = [own EXCEPT
                                                ![j].stage = After(j, ordered),
                                                ![j].ret = "raised",
                                                ![j].pc = "raised",
                                                ![j].dd = dd,
                                                ![j].exc = "error",
                                                ![j].part = FALSE,
                                                ![j].staging = "present"]
                              /\ UNCHANGED procs
    /\ UNCHANGED <<gw, guard, sweep>>

\* the branch check_for_dupe_folder takes. d is what its makedirs meet;
\* make_dir returns False for a directory that exists, and exits on OSError
FolderDecision(d, have_dupes, allow) ==
    CASE d = "oserror" -> "exit_oserror"
      [] d = "made" -> "return_path"
      [] allow \/ ~have_dupes ->
            IF d = "alternate" THEN "return_alternate" ELSE "fail_exit"
      [] OTHER -> "eject_fail_exit"

\* check_for_dupe_folder(have_dupes, hb_out_path, job) with
\* cfg["ALLOW_DUPLICATES"] = allow, the store answering o to its commit.
\* The output directory is made and returned, or it exists: then,
\* duplicates allowed or none found, an alternate directory is made and
\* returned; when that exists too, or the duplicate is not allowed (the disc
\* is ejected), status 'fail' is committed and the process exits.
CheckForDupeFolderOn(j, ordered, d, have_dupes, allow, o) ==
    /\ CanCall(j, ordered, 1)
    /\ LET decision == FolderDecision(d, have_dupes, allow) IN
          CASE decision = "exit_oserror" ->
                 /\ Abort(j, "makedirs_oserror", 1)
                 /\ UNCHANGED <<db, mem, dirty>>
            [] decision \in {"return_path", "return_alternate"} ->
                 /\ own' = [own EXCEPT ![j].stage = After(j, ordered),
                                       ![j].ret = "path"]
                 /\ UNCHANGED <<db, mem, dirty, procs>>
            [] OTHER ->
                 IF o = "ok"
                 THEN /\ db' = [db EXCEPT ![j] =
                                  Flush(db[j], SetAttrs(mem[j], StatusOnly("fail")),
                                        dirty[j] \cup {"status"})]
                      /\ mem' = [mem EXCEPT ![j] = AllExpired]
                      /\ dirty' = [dirty EXCEPT ![j] = {}]
                      /\ Abort(j, IF decision = "fail_exit" THEN "alternate_exists"
                                  ELSE "duplicate_refused", 0)
                 ELSE /\ AssignAndCommit(j, StatusOnly("fail"), o)
                      /\ own' = [own EXCEPT ![j].stage = After(j, ordered),
                                            ![j].pc = "raised",
                                            ![j].exc = o,
                                            ![j].ret = "raised"]
                      /\ UNCHANGED procs
    /\ UNCHANGED <<gw, sweep>>

\* a call of check_for_dupe_folder by the process of job j; an input the
\* branch taken does not read is not varied
CheckForDupeFolder(j, ordered) ==
    /\ \E d \in DirOutcomes :
          IF d \in {"made", "oserror"}
          THEN CheckForDupeFolderOn(j, ordered, d, FALSE, FALSE, "ok")
          ELSE \E have_dupes \in BOOLEAN, allow \in BOOLEAN :
                  IF FolderDecision(d, have_dupes, allow) = "return_alternate"
                  THEN CheckForDupeFolderOn(j, ordered, d, have_dupes, allow, "ok")
                  ELSE \E o \in Outcomes :
                          CheckForDupeFolderOn(j, ordered, d, have_dupes, allow, o)
    /\ UNCHANGED guard

\* the end of the run: the rip's outcome becomes the job's final status
FinalStatus(j, ordered, o) ==
    /\ CanCall(j, ordered, 2)
    /\ own[j].ret \in {"True", "False", "path"}
    /\ AssignAndCommit(j, StatusOnly(IF own[j].ret = "False" THEN "fail" ELSE "success"), o)
    /\ own' = [own EXCEPT ![j].stage = After(j, ordered),
                          ![j].exc = IF o = "ok" THEN "none" ELSE o,
                          ![j].pc = IF o = "ok" THEN "final" ELSE "raised"]
    /\ UNCHANGED <<gw, guard, procs, sweep>>

\* the process ends: normally after its final status, or on the exception
\* that left the module
ProcessExit(j) ==
    /\ Alive(j)
    /\ own[j].pc \in {"final", "raised"}
    /\ Gone(j, "exited", IF own[j].pc = "final" THEN 0 ELSE 1)
    /\ mem' = [mem EXCEPT ![j] = AllExpired]
    /\ dirty' = [dirty EXCEPT ![j] = {}]
    /\ UNCHANGED <<db, gw, guard, sweep, calls>>

\* ------------------------------------------------------ the environment
\* the ripper process is terminated from outside, between two of its steps
Kill(j) ==
    /\ Alive(j)
    /\ Gone(j, "killed", 0)
    /\ mem' = [mem EXCEPT ![j] = AllExpired]
    /\ dirty' = [dirty EXCEPT ![j] = {}]
    /\ UNCHANGED <<db, gw, guard, sweep, calls>>

\* an unrelated process is started under the PID of a ripper that is gone
PidReuse(j) ==
    /\ procs[j] = "none"
    /\ procs' = [procs EXCEPT ![j] = "other"]
    /\ UNCHANGED <<db, mem, dirty, gw, guard, own, sweep, calls>>

\* the web UI stores a manual title for the job
UiSetTitle(j) ==
    /\ db[j].title_manual = PyNone
    /\ db' = [db EXCEPT ![j].title_manual = "Manual title"]
    /\ UNCHANGED <<mem, dirty, gw, guard, own, procs, sweep, calls>>

\* ------------------------------------------------------- clean_old_jobs
\* the elements of a set of jobs in the store's order, by job id
RECURSIVE InOrder(_)
InOrder(S) ==
    IF S = {} THEN <<>>
    ELSE LET j == CHOOSE x \in S : \A y \in S : x <= y IN <<j>> \o InOrder(S \ {j})

\* the jobs the query of clean_old_jobs returns
NonTerminal == {j \in Jobs : db[j].status \notin Terminal}

\* the query: every job whose status is neither 'fail' nor 'success'
SweepQuery ==
    /\ sweep.pc \in {"idle", "done", "raised"}
    /\ sweep' = [Sweep0 EXCEPT !.pc = "loop", !.todo = InOrder(NonTerminal),
                              !.fixed = sweep.fixed]
    /\ UNCHANGED <<db, mem, dirty, gw, guard, own, procs, calls>>

\* a PID test that would find every process gone
SweepPidExistsNever ==
    /\ sweep.pc = "loop"
    /\ sweep.todo # <<>>
    /\ LET j == Head(sweep.todo) IN
          sweep' = [sweep EXCEPT !.pc = "fail", !.seen[j] = "absent"]
    /\ UNCHANGED <<db, mem, dirty, gw, guard, own, procs, calls>>

\* psutil.pid_exists(job.pid) for the next job of the list
SweepPidExists ==
    /\ sweep.pc = "loop"
    /\ sweep.todo # <<>>
    /\ LET j == Head(sweep.todo) IN
          sweep' = [sweep EXCEPT
                      !.pc = IF procs[j] = "none" THEN "fail" ELSE "process",
                      !.seen[j] = IF procs[j] = "none" THEN "absent" ELSE "none"]
    /\ UNCHANGED <<db, mem, dirty, gw, guard, own, procs, calls>>

\* psutil.Process(job.pid), which raises when the process is gone by now,
\* and the comparison of its hash with job.pid_hash: equal is logged,
\* different has no branch
SweepProcess ==
    /\ sweep.pc = "process"
    /\ LET j == Head(sweep.todo) IN
          sweep' = IF procs[j] = "none"
                   THEN [sweep EXCEPT !.pc = "raised"]
                   ELSE [sweep EXCEPT !.pc = "loop", !.todo = Tail(@),
                                      !.seen[j] = procs[j]]
    /\ UNCHANGED <<db, mem, dirty, gw, guard, own, procs, calls>>

\* a sweep that would log a failed commit and go on to the next job
SweepFailSwallows(o) ==
    /\ sweep.pc = "fail"
    /\ LET j == Head(sweep.todo)
           objs == [sweep.objs EXCEPT ![j].status = "fail"]
           mods == [sweep.mods EXCEPT ![j] = @ \cup {"status"}]
       IN IF o = "ok"
          THEN /\ db' = [k \in Jobs |-> Flush(db[k], objs[k], mods[k])]
               /\ sweep' = [sweep EXCEPT !.pc = "loop", !.todo = Tail(@),
                                         !.objs = [k \in Jobs |-> AllExpired],
                                         !.mods = [k \in Jobs |-> {}],
                                         !.fixed = IF db[j].status = "fail" THEN @
                                                   ELSE @ \cup {j}]
          ELSE /\ sweep' = [sweep EXCEPT !.pc = "loop", !.todo = Tail(@),
                                         !.objs = objs, !.mods = mods]
               /\ UNCHANGED db
    /\ UNCHANGED <<mem, dirty, gw, guard, own, procs, calls>>

\* a sweep that would assign 'fail' and move on without committing
SweepFailNoCommit(o) ==
    /\ sweep.pc = "fail"
    /\ LET j == Head(sweep.todo) IN
          sweep' = [sweep EXCEPT !.pc = "loop", !.todo = Tail(@),
                                 !.objs[j].status = "fail",
                                 !.mods[j] = @ \cup {"status"}]
    /\ UNCHANGED <<db, mem, dirty, gw, guard, own, procs, calls>>

\* job.status = "fail" and db.session.commit() in the sweep's session, the
\* store answering o: every modified attribute of the session is written
SweepFail(o) ==
    /\ sweep.pc = "fail"
    /\ LET j == Head(sweep.todo)
           objs == [sweep.objs EXCEPT ![j].status = "fail"]
           mods == [sweep.mods EXCEPT ![j] = @ \cup {"status"}]
       IN IF o = "ok"
          THEN /\ db' = [k \in Jobs |-> Flush(db[k], objs[k], mods[k])]
               /\ sweep' = [sweep EXCEPT !.pc = "loop", !.todo = Tail(@),
                                         !.objs = [k \in Jobs |-> AllExpired],
                                         !.mods = [k \in Jobs |-> {}],
                                         !.fixed = IF db[j].status = "fail" THEN @
                                                   ELSE @ \cup {j}]
          ELSE /\ sweep' = [sweep EXCEPT !.pc = "raised", !.objs = objs,
                                         !.mods = mods]
               /\ UNCHANGED db
    /\ UNCHANGED <<mem, dirty, gw, guard, own, procs, calls>>

\* the list is exhausted: the function ends without a return statement, and
\* the call returns None
SweepReturnOn ==
    /\ sweep.pc = "loop"
    /\ sweep.todo = <<>>
    /\ sweep' = [sweep EXCEPT !.pc = "done", !.ret = PyNone]
    /\ UNCHANGED <<db, mem, dirty, gw, own, procs, calls>>

SweepReturn == SweepReturnOn /\ UNCHANGED guard

\* ----------------------------------------------------- duplicate_run_check
MaxPrior == 2           \* rows of other jobs in the table a starting run finds

MsPerSecond == 1000     \* total_seconds() of a timedelta kept in milliseconds
SecondsPerMinute == 60  \* ... / 60
RecentMinutes == 1      \* if mins_last_run <= 1

Abs(n) == IF n < 0 THEN 0 - n ELSE n

\* round(x) of a number of seconds given in milliseconds: to the nearest
\* integer, a half to the even one
RoundSeconds(ms) ==
    LET q == ms \div MsPerSecond
        r == ms % MsPerSecond
    IN IF 2 * r > MsPerSecond \/ (2 * r = MsPerSecond /\ q % 2 = 1) THEN q + 1 ELSE q

\* int(round(abs(j.start_time - now).total_seconds()) / 60), age being
\* now - j.start_time in milliseconds
MinsLastRun(age) == RoundSeconds(Abs(age)) \div SecondsPerMinute

\* the query: the rows with status neither 'fail' nor 'success' on dev_path
RunningJobs(table, dev_path) ==
    SelectSeq(table, LAMBDA r : r.status \notin Terminal /\ r.devpath = dev_path)

\* a check that would look at the first running job only
DuplicateRunCheckFirstOnly ==
    /\ guard.pc = "start"
    /\ LET running_jobs == RunningJobs(guard.table, guard.dev_path) IN
          IF /\ running_jobs # <<>>
             /\ MinsLastRun(running_jobs[1].age) <= RecentMinutes
          THEN guard' = [guard EXCEPT !.pc = "aborted", !.code = 1]
          ELSE guard' = [guard EXCEPT !.pc = "running"]
    /\ UNCHANGED <<db, mem, dirty, gw, own, procs, sweep, calls>>

\* duplicate_run_check(dev_path): sys.exit(1) at the first running job whose
\* mins_last_run is at most 1, else the function returns
DuplicateRunCheck ==
    /\ guard.pc = "start"
    /\ LET running_jobs == RunningJobs(guard.table, guard.dev_path) IN
          IF \E n \in 1..Len(running_jobs) :
                MinsLastRun(running_jobs[n].age) <= RecentMinutes
          THEN guard' = [guard EXCEPT !.pc = "aborted", !.code = 1]
          ELSE guard' = [guard EXCEPT !.pc = "running"]
    /\ UNCHANGED <<db, mem, dirty, gw, own, procs, sweep, calls>>

\* ---------------------------------------------------------- job_dupe_check
\* the columns get_d() shows that the function reads
ShownColumns ==
    {"crc_id", "status", "devpath", "title", "year", "poster_url", "video_type",
     "hasnicetitle"}

\* str(value)
Str(v) ==
    CASE v = PyNone -> "None"
      [] v = PyTrue -> "True"
      [] v = PyFalse -> "False"
      [] OTHER -> v

\* str.lower() of the strings str() makes of a hasnicetitle
Lower(str) ==
    CASE str = "True" -> "true"
      [] str = "False" -> "false"
      [] str = "None" -> "none"
      [] OTHER -> str

\* results[i]: every item of j.get_d() with str(key) and str(value)
GetD(r) == [k \in ShownColumns |-> Str(r[k])]

\* a query that would not look at hasnicetitle
IsPreviousRipAnyTitle(r, crc_id) ==
    r.crc_id = crc_id /\ r.status = "success"

\* filter_by(crc_id=job.crc_id, status="success", hasnicetitle=True)
IsPreviousRip(r, crc_id) ==
    r.crc_id = crc_id /\ r.status = "success" /\ r.hasnicetitle = PyTrue

\* results, in the order the store returns the rows
PreviousRips(table, crc_id) ==
    LET previous_rips == SelectSeq(table, LAMBDA r : IsPreviousRip(r, crc_id))
    IN [n \in 1..Len(previous_rips) |-> GetD(previous_rips[n])]

\* the dict passed to database_updater, made of results[0]
ActiveRip(results, job) ==
    LET first == results[1] IN
    [title |-> IF first.title # "" THEN first.title ELSE job.label,
     year |-> IF first.year # "" THEN first.year ELSE "",
     poster_url |-> IF first.poster_url # "" THEN first.poster_url ELSE PyNone,
     hasnicetitle |-> IF Lower(Str(first.hasnicetitle)) = "true" THEN PyTrue
                      ELSE PyFalse,
     video_type |-> IF first.hasnicetitle # "" THEN first.video_type
                    ELSE "unknown"]

\* setattr(job, key, value) for the items of a dict, on a record
Assign(rec, items) ==
    [k \in DOMAIN rec |-> IF k \in DOMAIN items THEN items[k] ELSE rec[k]]

\* job_dupe_check(job): (False, None) at once without a crc_id; else the
\* query, and with results the identification of the first is written to
\* the job through database_updater, which ends as end
JobDupeCheck ==
    /\ guard.pc = "running"
    /\ IF guard.obj.crc_id = PyNone
       THEN guard' = [guard EXCEPT !.pc = "checked", !.is_dup = PyFalse]
       ELSE LET results == PreviousRips(guard.table, guard.obj.crc_id) IN
            IF results = <<>>
            THEN guard' = [guard EXCEPT !.pc = "checked", !.is_dup = PyFalse,
                                        !.queried = TRUE]
            ELSE \E end \in UpdaterEnds :
                    LET active_rip == ActiveRip(results, guard.obj)
                        written == Assign(guard.obj, active_rip)
                    IN guard' = [guard EXCEPT
                          !.pc = IF end.result = "True" THEN "checked" ELSE "raised",
                          !.is_dup = IF end.result = "True" THEN PyTrue ELSE "none",
                          !.results = IF end.result = "True" THEN results ELSE <<>>,
                          !.queried = TRUE,
                          !.obj = written,
                          !.row = IF end.committed THEN written ELSE guard.row]
    /\ UNCHANGED <<db, mem, dirty, gw, own, procs, sweep, calls>>

\* ----------------------------------------------- a run that starts
\* start times of the other jobs, as milliseconds before now
Ages == {30000, 60000, 90000, 119500, 300000}

\* identifications of other jobs: complete; year and poster unset; year and
\* poster empty; title empty
Idents ==
    {[title |-> "Alpha (2001)", year |-> "2001", poster_url |-> "http://img/a",
      video_type |-> "movie"],
     [title |-> "Beta", year |-> PyNone, poster_url |-> PyNone,
      video_type |-> "series"],
     [title |-> "Gamma", year |-> "", poster_url |-> "", video_type |-> "movie"],
     [title |-> "", year |-> "1999", poster_url |-> "http://img/d",
      video_type |-> "movie"]}

OtherJob(status, devpath, age, crc_id, hasnicetitle, ident) ==
    [status |-> status, devpath |-> devpath, age |-> age, crc_id |-> crc_id,
     hasnicetitle |-> hasnicetitle, title |-> ident.title, year |-> ident.year,
     poster_url |-> ident.poster_url, video_type |-> ident.video_type]

FullIdent == CHOOSE i \in Idents : i.title = "Alpha (2001)"

\* rows that differ in what duplicate_run_check reads
TimedRows ==
    {OtherJob(st, dev, age, "G", PyFalse, FullIdent) :
        st \in {"active", "success"}, dev \in {"/dev/sr0", "/dev/sr1"}, age \in Ages}

\* rows that differ in what job_dupe_check reads
IdentifiedRows ==
    {OtherJob(st, "/dev/sr1", 300000, crc, nice, ident) :
        st \in {"active", "success"}, crc \in {"F", "G"},
        nice \in {PyTrue, PyFalse}, ident \in Idents}

SeqsUpTo(S, n) == UNION {[1..m -> S] : m \in 0..n}

Tables == SeqsUpTo(TimedRows, MaxPrior) \cup SeqsUpTo(IdentifiedRows, MaxPrior)

InitGuard ==
    /\ db = [j \in Jobs |-> Row0]
    /\ mem = [j \in Jobs |-> AllExpired]
    /\ dirty = [j \in Jobs |-> {}]
    /\ gw = GwIdle
    /\ own = [j \in Jobs |-> Own0]
    /\ procs = [j \in Jobs |-> "owner"]
    /\ sweep = Sweep0
    /\ calls = 0
    /\ \E table \in Tables, crc_id \in {PyNone, "F"} :
          guard = [Guard0 EXCEPT !.pc = "start", !.table = table,
                                 !.row.crc_id = crc_id, !.obj.crc_id = crc_id]

NextGuard ==
    \/ DuplicateRunCheck
    \/ JobDupeCheck

SpecGuard == InitGuard /\ [][NextGuard]_vars

\* ------------------------------------------------------ the specifications
Init ==
    /\ db = [j \in Jobs |-> Row0]
    /\ mem = [j \in Jobs |-> AllExpired]
    /\ dirty = [j \in Jobs |-> {}]
    /\ gw = GwIdle
    /\ own = [j \in Jobs |-> Own0]
    /\ procs = [j \in Jobs |-> "owner"]
    /\ sweep = Sweep0
    /\ calls = 0
    /\ guard = Guard0

Step(ordered) ==
    \/ \E j \in Jobs : CfwEnter(j, ordered)
    \/ \E j \in Jobs : CfwTick(j)
    \/ \E j \in Jobs, o \in Outcomes : CfwActive(j, o)
    \/ \E j \in Jobs : RipData(j, ordered)
    \/ \E j \in Jobs : CheckForDupeFolder(j, ordered)
    \/ \E j \in Jobs, o \in Outcomes : FinalStatus(j, ordered, o)
    \/ \E j \in Jobs : ProcessExit(j)
    \/ \E j \in Jobs : Kill(j)
    \/ \E j \in Jobs : PidReuse(j)
    \/ \E j \in Jobs : UiSetTitle(j)
    \/ SweepQuery
    \/ SweepPidExists
    \/ SweepProcess
    \/ \E o \in Outcomes : SweepFail(o)
    \/ SweepReturn

\* the ripper follows the lifecycle: check_for_wait, the rip, the final status
Next == Step(TRUE)
Spec == Init /\ [][Next]_vars

\* the ripper calls the operations of the module in any order
NextAnyOrder == Step(FALSE)
SpecAnyOrder == Init /\ [][NextAnyOrder]_vars

\* ------------------------------------- a run up to its output directory
\* the call of check_for_dupe_folder of a run, kept with what it was given
FolderCall(j) ==
    /\ ~guard.folder.called
    /\ \E d \in DirOutcomes, have_dupes \in BOOLEAN, allow \in BOOLEAN, o \in Outcomes :
          /\ CheckForDupeFolderOn(j, TRUE, d, have_dupes, allow, o)
          /\ guard' = [guard EXCEPT !.folder =
                         [called |-> TRUE, job |-> j, d |-> d,
                          have_dupes |-> have_dupes, allow |-> allow, o |-> o,
                          decision |-> FolderDecision(d, have_dupes, allow),
                          before |-> db[j].status]]

NextFolder ==
    \/ \E j \in Jobs : CfwEnter(j, TRUE)
    \/ \E j \in Jobs : CfwTick(j)
    \/ \E j \in Jobs, o \in Outcomes : CfwActive(j, o)
    \/ \E j \in Jobs : UiSetTitle(j)
    \/ \E j \in Jobs : FolderCall(j)
    \/ \E j \in Jobs : ProcessExit(j)

SpecFolder == Init /\ [][NextFolder]_vars

\* ------------------------------------------------ a run up to its wait
\* the job object of a run that reaches check_for_wait: nothing pending, or
\* an attribute the run has assigned and not committed yet
InitWait ==
    /\ db = [j \in Jobs |-> Row0]
    /\ \E pending \in BOOLEAN :
          /\ mem = [j \in Jobs |->
                      IF pending THEN [AllExpired EXCEPT !.errors = ""]
                      ELSE AllExpired]
          /\ dirty = [j \in Jobs |-> IF pending THEN {"errors"} ELSE {}]
    /\ gw = GwIdle
    /\ own = [j \in Jobs |-> Own0]
    /\ procs = [j \in Jobs |-> "owner"]
    /\ sweep = Sweep0
    /\ calls = 0
    /\ guard = Guard0

\* the call of check_for_wait of a run, kept with what it was given
WaitCall(j) ==
    /\ ~guard.wait.called
    /\ \E manual_wait \in BOOLEAN, o \in Outcomes :
          /\ CfwEnterOn(j, TRUE, manual_wait, o)
          /\ guard' = [guard EXCEPT !.wait =
                         [NoWaitCall EXCEPT !.called = TRUE, !.job = j,
                                            !.manual_wait = manual_wait,
                                            !.ceiling = own'[j].ceiling,
                                            !.returned = own'[j].ret = "None"]]

\* time.sleep(5) and the rest of a pass of its loop
WaitTick(j) ==
    /\ guard.wait.job = j
    /\ CfwTickOn(j)
    /\ guard' = [guard EXCEPT !.wait.ticks = @ + 1]

\* the end of the call, after the loop
WaitEnd(j) ==
    /\ guard.wait.job = j
    /\ \E o \in Outcomes : CfwActiveOn(j, o)
    /\ guard' = [guard EXCEPT
                   !.wait.returned = own'[j].ret = "None",
                   !.wait.ended = CASE own[j].pc = "cfw_active" -> "override"
                                    [] guard.wait.ticks = 0 -> "no_tick"
                                    [] OTHER -> "ceiling"]

NextWait ==
    \/ \E j \in Jobs : WaitCall(j)
    \/ \E j \in Jobs : WaitTick(j)
    \/ \E j \in Jobs : WaitEnd(j)
    \/ \E j \in Jobs : UiSetTitle(j)
    \/ \E j \in Jobs : ProcessExit(j)

\* the process of a job that is in check_for_wait goes on running
WaitRuns ==
    \A j \in Jobs : WF_vars(WaitTick(j)) /\ WF_vars(WaitEnd(j))

SpecWait == InitWait /\ [][NextWait]_vars /\ WaitRuns

\* clean_old_jobs alone, on any store and any process table, nothing else
\* running: the process table stays as it is
InitSweep ==
    /\ db \in [Jobs -> {[Row0 EXCEPT !.status = s, !.title_manual = t] :
                          s \in {"identifying", "waiting", "active", "success", "fail"},
                          t \in {PyNone, "Manual title"}}]
    /\ procs \in [Jobs -> {"owner", "none", "other"}]
    /\ own = [j \in Jobs |->
                [Own0 EXCEPT !.pc = IF procs[j] = "owner" THEN "idle" ELSE "killed"]]
    /\ mem = [j \in Jobs |-> AllExpired]
    /\ dirty = [j \in Jobs |-> {}]
    /\ gw = GwIdle
    /\ sweep = Sweep0
    /\ calls = 0
    /\ guard = Guard0

MaxSweeps == 2          \* calls of clean_old_jobs that return

\* clean_old_jobs is called again
SweepCall ==
    /\ guard.sweeps < MaxSweeps
    /\ SweepQuery

\* a call returns, and is counted
SweepReturnCounted ==
    /\ SweepReturnOn
    /\ guard' = [guard EXCEPT !.sweeps = @ + 1]

NextSweep ==
    \/ SweepCall
    \/ SweepPidExists
    \/ SweepProcess
    \/ \E o \in Outcomes : SweepFail(o)
    \/ SweepReturnCounted

SpecSweep == InitSweep /\ [][NextSweep]_vars

\* clean_old_jobs is run again and again while rippers are terminated from
\* outside and their PIDs are given to other processes
NextLive ==
    \/ \E j \in Jobs : Kill(j)
    \/ \E j \in Jobs : PidReuse(j)
    \/ SweepQuery
    \/ SweepPidExists
    \/ SweepProcess
    \/ \E o \in Outcomes : SweepFail(o)
    \/ SweepReturn

\* the sweep is called again after every call, each of its steps is taken
\* once it is reached, and the store does not refuse its commit for ever
SweepKeepsRunning ==
    /\ WF_vars(SweepQuery)
    /\ WF_vars(SweepPidExists)
    /\ WF_vars(SweepProcess)
    /\ WF_vars(SweepReturn)
    /\ SF_vars(SweepFail("ok"))

SpecLive == InitSweep /\ [][NextLive]_vars /\ SweepKeepsRunning

\* ------------------------------------------------ claims on the gateway
GwUpdaterDone == gw.fn = "updater" /\ gw.isdict /\ gw.ls.result # "none"

\* the number of 'locked' answers before the first other answer, up to limit
RECURSIVE LeadingLocked(_, _, _)
LeadingLocked(pat, n, limit) ==
    IF n >= limit \/ OutcomeAt(pat, n) # "locked" THEN n
    ELSE LeadingLocked(pat, n + 1, limit)

\* the 'locked' answers among the first n
LockedAmong(pat, n) == Cardinality({m \in 0..(n - 1) : OutcomeAt(pat, m) = "locked"})

\* C3: database_updater with a dict returns True only if a commit attempt of
\* the call succeeded, the mutations then being in the store; with every
\* attempt 'locked', or no attempt at all, it does not return True.
C3_TrueOnlyAfterCommit ==
    (GwUpdaterDone /\ gw.ls.result = "True") =>
        /\ gw.ls.oks >= 1
        /\ dirty[gw.job] = {}

\* C4: N 'locked' answers and then success (here: for every later attempt),
\* N below wait_time: the call returns True after exactly N sleeps and
\* exactly N + 1 commit attempts.
C4_RetriesEqualN ==
    LET n == LeadingLocked(gw.pat, 0, gw.wait) IN
    (/\ GwUpdaterDone
     /\ n < gw.wait
     /\ \A m \in n..(gw.wait - 1) : OutcomeAt(gw.pat, m) = "ok") =>
        /\ gw.ls.result = "True"
        /\ gw.ls.sleeps = n
        /\ gw.ls.attempts = n + 1

\* C5: in database_updater and database_adder no commit attempt follows an
\* answer that is an error other than 'locked'; on that answer the call has
\* raised, having slept only for the 'locked' answers before it.
C5_FatalImmediately ==
    (gw.fn # "none" /\ gw.ls.attempts >= 1) =>
        /\ \A n \in 0..(gw.ls.attempts - 2) : OutcomeAt(gw.pat, n) # "error"
        /\ OutcomeAt(gw.pat, gw.ls.attempts - 1) = "error" =>
              /\ gw.ls.result = "RuntimeError"
              /\ gw.ls.sleeps = LockedAmong(gw.pat, gw.ls.attempts - 1)

C5_Witness ==
    /\ gw.fn # "none"
    /\ gw.ls.result = "RuntimeError"
    /\ gw.ls.sleeps >= 1
    /\ OutcomeAt(gw.pat, gw.ls.attempts - 1) = "error"

\* C6: against the same answers of the store, database_updater with the
\* default budget ends as database_adder does: as many commit attempts, as
\* many sleeps, the same result.
C6_AdderAsUpdater ==
    (GwUpdaterDone /\ gw.wait = DefaultWait) =>
        LET a == RunLoop("adder", LoopStart, AdderBudget, gw.pat) IN
            /\ gw.ls.attempts = a.attempts
            /\ gw.ls.sleeps = a.sleeps
            /\ gw.ls.result = a.result

\* C7: database_updater with args that is not a dict returns False without a
\* commit attempt or a sleep; the session is rolled back, so the job object
\* shows the stored values again, and the stored record is as it was.
C7_NoDictRollsBack ==
    (gw.fn = "updater" /\ ~gw.isdict) =>
        /\ gw.ls.result = "False"
        /\ gw.ls.attempts = 0
        /\ gw.ls.sleeps = 0
        /\ dirty[gw.job] = {}
        /\ \A k \in Fields : View(gw.job, k) = gw.before[k]
        /\ db[gw.job] = gw.before

C7_Witness ==
    /\ gw.fn = "updater"
    /\ ~gw.isdict
    /\ gw.hadDirty
    /\ gw.ls.result = "False"

\* ------------------------------------------- claims on the job lifecycle
Range(q) == {q[n] : n \in 1..Len(q)}

\* the position of a status on identifying -> waiting -> active -> terminal
Rank(st) ==
    CASE st = "identifying" -> 0
      [] st = "waiting" -> 1
      [] st = "active" -> 2
      [] OTHER -> 3

\* C1: once a job's stored status is 'success' or 'fail', no later write
\* changes it, whatever the interleaving of the job's own process with
\* clean_old_jobs.
C1_TerminalIsFinal ==
    [][\A j \in Jobs : db[j].status \in Terminal => db'[j].status = db[j].status]_vars

\* C2: a job's stored status only moves forward along identifying -> waiting
\* -> active -> success or fail, whatever the order in which the operations
\* of the module are called.
C2_StatusMovesForward ==
    [][\A j \in Jobs : Rank(db'[j].status) >= Rank(db[j].status)]_vars

\* C8: when clean_old_jobs has returned, every job it found non-terminal whose
\* PID belonged to a process with another fingerprint has status 'fail'.
C8_MismatchIsFailed ==
    sweep.pc = "done" =>
        \A j \in Jobs : sweep.seen[j] = "other" => db[j].status = "fail"

\* C9: every job clean_old_jobs found non-terminal and whose PID it found
\* absent has status 'fail' in the store once the sweep has moved on from
\* it, and so when the sweep has returned.
C9_AbandonedIsFailed ==
    \A j \in Jobs :
        (sweep.seen[j] = "absent" /\ j \notin Range(sweep.todo)) =>
            db[j].status = "fail"

C9_Witness ==
    /\ sweep.pc = "done"
    /\ \E j \in Jobs : sweep.seen[j] = "absent" /\ db[j].status = "fail"

C11_SweepIdempotent ==
    [][guard.sweeps >= 1 => db' = db]_vars

\* a second call has returned, after a first that corrected a job
C11_Witness ==
    /\ sweep.pc = "done"
    /\ guard.sweeps = 2
    /\ \E j \in Jobs : j \in sweep.fixed /\ db[j].status = "fail"

\* the jobs the running call has set to 'fail' and committed
Corrected == {j \in Jobs : sweep.seen[j] = "absent" /\ j \notin Range(sweep.todo)}

\* C12: the value clean_old_jobs returns is the number of jobs whose status
\* the call changed to 'fail'.
C12_ReturnsCount ==
    sweep.pc = "done" => sweep.ret = ToString(Cardinality(Corrected))

\* job j has a manual title in the store
HasManualTitle(j) == db[j].title_manual \notin {PyNone, ""}

\* C16: in the wait loop of check_for_wait, the tick that re-reads a job
\* with a manual title sets hasnicetitle and updated and leaves the loop, so
\* that no further tick is slept (a title set before the wait is seen at the
\* first tick); a tick that sees none leaves both flags as they are and
\* stays in the loop, and when the loop ends at the ceiling the stored flags
\* are unchanged.
C16_OverrideEndsWait ==
    [][\A j \in Jobs :
          /\ (own[j].pc = "cfw_loop" /\ own'[j].sleep_time > own[j].sleep_time) =>
                /\ own'[j].sleep_time = own[j].sleep_time + TickSeconds
                /\ IF HasManualTitle(j)
                   THEN /\ View(j, "hasnicetitle")' = PyTrue
                        /\ View(j, "updated")' = PyTrue
                        /\ own'[j].pc = "cfw_active"
                   ELSE /\ View(j, "hasnicetitle")' = View(j, "hasnicetitle")
                        /\ View(j, "updated")' = View(j, "updated")
                        /\ own'[j].pc = "cfw_loop"
          /\ own[j].pc = "cfw_active" => own'[j].sleep_time <= own[j].sleep_time
          /\ (own[j].pc = "cfw_loop" /\ own'[j].pc \in {"idle", "raised"}) =>
                /\ db'[j].hasnicetitle = db[j].hasnicetitle
                /\ db'[j].updated = db[j].updated]_vars

\* the wait was left at its first tick, before the ceiling
C16_Witness ==
    \E j \in Jobs :
       /\ own[j].pc = "cfw_active"
       /\ own[j].sleep_time = TickSeconds
       /\ own[j].sleep_time < own[j].ceiling
       /\ View(j, "hasnicetitle") = PyTrue
       /\ View(j, "updated") = PyTrue

\* C17: once rip_data has ended with a block copy that exited non-zero, there
\* is no .part file, the stored status is 'fail' with a non-empty errors
\* string, the staging directory is gone and the result is False. Stated for
\* the case the claim names last: the copy failed before it created the
\* .part file.
C17_FailedRipCleansUp ==
    \A j \in Jobs :
        own[j].dd = "failed_no_part" =>
            /\ ~own[j].part
            /\ db[j].status = "fail"
            /\ db[j].errors \notin {PyNone, ""}
            /\ own[j].staging = "removed"
            /\ own[j].ret = "False"

\* C18: check_for_dupe_folder decides by its inputs: a path that does not
\* exist is created and returned, the job untouched; a path that exists, with
\* duplicates allowed or none found, gets an alternate directory, which is
\* returned, and the job is not failed; a path that exists, with duplicates
\* disallowed and one found, has the disc ejected, status 'fail' committed and
\* the process terminated, no directory made. Stated for a store that
\* answers the commit with success or with 'locked', and for an alternate
\* directory that can be made.
C18_FolderDecision ==
    LET f == guard.folder
        j == f.job
    IN (f.called /\ f.o \in {"ok", "locked"}) =>
          /\ f.d = "made" =>
                /\ f.decision = "return_path"
                /\ own[j].ret = "path"
                /\ db[j].status = f.before
          /\ (f.d = "alternate" /\ (f.allow \/ ~f.have_dupes)) =>
                /\ f.decision = "return_alternate"
                /\ own[j].ret = "path"
                /\ db[j].status = f.before
          /\ (f.d \in {"alternate", "both_exist"} /\ ~f.allow /\ f.have_dupes) =>
                /\ f.decision = "eject_fail_exit"
                /\ db[j].status = "fail"
                /\ own[j].pc = "aborted"

\* C19: a process that ends on a fatal abort of the module (a directory that
\* cannot be created, a duplicate that is not allowed) exits with a code
\* other than 0.
C19_AbortExitsNonZero ==
    \A j \in Jobs : own[j].pc = "aborted" => own[j].code # 0

\* C20: a 'locked' answer of the store never leaves a status change of the
\* ripper only in memory: no operation ends on a 'locked' error with its
\* status assignment uncommitted.
C20_LockedNeverLosesStatus ==
    \A j \in Jobs : own[j].exc = "locked" => "status" \notin dirty[j]

\* ------------------------------------------- claims on the duplicate guard
\* C13: duplicate_run_check(dev_path) aborts the process exactly when some
\* job with a status other than 'success' and 'fail' and with devpath equal
\* to dev_path was started within the last minute.
C13_AbortsWithinOneMinute ==
    guard.pc \notin {"none", "start"} =>
        (guard.pc = "aborted" <=>
            \E n \in 1..Len(guard.table) :
               /\ guard.table[n].status \notin {"success", "fail"}
               /\ guard.table[n].devpath = guard.dev_path
               /\ guard.table[n].age >= 0
               /\ guard.table[n].age <= SecondsPerMinute * MsPerSecond)

\* C14: job_dupe_check reports a duplicate exactly when the job's crc_id is
\* set and some other job has that crc_id, status 'success' and hasnicetitle
\* true; without a crc_id it returns (False, None) and has not queried; and
\* when it reports false the job object and its stored record are as before.
C14_DuplicateIffPriorSuccess ==
    guard.pc = "checked" =>
        LET crc_id == guard.row.crc_id
            before == [GuardJob0 EXCEPT !.crc_id = crc_id]
        IN /\ guard.is_dup = PyTrue <=>
                 /\ crc_id # PyNone
                 /\ \E n \in 1..Len(guard.table) :
                       /\ guard.table[n].crc_id = crc_id
                       /\ guard.table[n].status = "success"
                       /\ guard.table[n].hasnicetitle = PyTrue
           /\ crc_id = PyNone =>
                 guard.is_dup = PyFalse /\ guard.results = <<>> /\ ~guard.queried
           /\ guard.is_dup = PyFalse =>
                 guard.row = before /\ guard.obj = before /\ guard.results = <<>>

\* a duplicate is reported although the first row of the table is none
C14_Witness ==
    /\ guard.pc = "checked"
    /\ guard.is_dup = PyTrue
    /\ Len(guard.table) = 2
    /\ guard.table[1].status = "active"
    /\ guard.table[1].crc_id = guard.row.crc_id

\* the first row of the table that job_dupe_check's query returns
FirstPrevious == SelectSeq(guard.table, LAMBDA r : IsPreviousRip(r, guard.row.crc_id))[1]

\* C15: after job_dupe_check has reported a duplicate and its write is in the
\* store, title, year, poster_url and video_type of the job equal those of
\* the first record the query returned (a record with a usable title), also
\* when the year or the poster of that record is unset.
C15_CopiesFirstPrevious ==
    (/\ guard.pc = "checked"
     /\ guard.is_dup = PyTrue
     /\ guard.row = guard.obj
     /\ FirstPrevious.title # "") =>
        \A f \in {"title", "year", "poster_url", "video_type"} :
            guard.row[f] = FirstPrevious[f]

\* ------------------------------------------- claims on eventual correction
\* the owning process of job j has terminated: its PID is absent, or belongs
\* to a process with another fingerprint
OwnerDead(j) == procs[j] \in {"none", "other"}

\* C21: a job that is non-terminal and whose owning process has terminated
\* (PID absent, or reused by a process with a different fingerprint)
\* eventually has status 'fail', clean_old_jobs being run again and again.
C21_DeadOwnerEventuallyFailed ==
    \A j \in Jobs :
        (db[j].status \notin Terminal /\ OwnerDead(j)) ~> (db[j].status = "fail")

\* ------------------------------------------ claims on the device path
\* the rows of the table that are non-terminal jobs on the run's device path
OnDevice ==
    {n \in 1..Len(guard.table) :
        /\ guard.table[n].status \notin Terminal
        /\ guard.table[n].devpath = guard.dev_path}

\* the run went on past duplicate_run_check
Proceeded == guard.pc \in {"running", "checked", "raised"}

CeilDiv(a, b) == (a + b - 1) \div b

\* the process of job j is inside the loop of check_for_wait or just after it
InWait(j) == own[j].pc \in {"cfw_loop", "cfw_active"}

\* the call of check_for_wait has slept no more than ceil(ceiling / 5) ticks,
\* and once it has returned the status is 'active' in the store, with nothing
\* of the job left uncommitted
WaitBoundedAndActive ==
    LET w == guard.wait
        j == w.job
    IN (w.called /\ w.manual_wait) =>
          /\ w.ticks <= CeilDiv(w.ceiling, TickSeconds)
          /\ own[j].sleep_time = w.ticks * TickSeconds \/ ~InWait(j)
          /\ w.returned =>
                /\ w.ended \in {"override", "ceiling", "no_tick"}
                /\ db[j].status = "active"
                /\ View(j, "status") = "active"
                /\ dirty[j] = {}

\* C23: with manual wait enabled, check_for_wait always terminates (by its
\* return, or by the exception of one of its commits): it sleeps at most
\* ceil(MANUAL_WAIT_TIME / 5) ticks of 5 seconds, and on return the status of
\* the job is 'active' and committed, the loop having ended by an override,
\* by the ceiling, or without a tick.
C23_WaitTerminates ==
    /\ []WaitBoundedAndActive
    /\ \A j \in Jobs : InWait(j) ~> ~InWait(j)

\* a call has returned after as many ticks as a ceiling that is no multiple
\* of 5 allows
C23_Witness ==
    LET w == guard.wait IN
    /\ w.called /\ w.manual_wait /\ w.returned
    /\ w.ended = "ceiling"
    /\ w.ceiling % TickSeconds # 0
    /\ w.ticks = CeilDiv(w.ceiling, TickSeconds)
    /\ db[w.job].status = "active"

\* a call of check_for_wait with cfg["MANUAL_WAIT"] off has been made
WaitDisabled == guard.wait.called /\ ~guard.wait.manual_wait

\* C24: with MANUAL_WAIT disabled, check_for_wait never sets status
\* 'waiting', never sleeps and makes no commit: the call leaves the stored
\* record, the job object and its uncommitted attributes as they were, and
\* returns at once.
C24_DisabledDoesNothing ==
    /\ [](WaitDisabled =>
            LET j == guard.wait.job IN
            /\ guard.wait.ticks = 0
            /\ guard.wait.returned
            /\ ~InWait(j)
            /\ own[j].exc = "none"
            /\ db[j].status # "waiting"
            /\ View(j, "status") # "waiting")
    /\ [][(WaitDisabled' /\ ~guard.wait.called) =>
            LET j == guard.wait.job' IN
            /\ db' = db
            /\ mem' = mem
            /\ dirty' = dirty
            /\ own'[j].sleep_time = own[j].sleep_time
            /\ own'[j].pc = "idle"
            /\ own'[j].ret = "None"]_vars

\* the call has returned, and an attribute assigned before it is still
\* uncommitted
C24_Witness ==
    /\ WaitDisabled
    /\ guard.wait.returned
    /\ dirty[guard.wait.job] = {"errors"}
    /\ db[guard.wait.job] = Row0

\* ------------------------------------------ claims on fatal directories
\* the process of job j has exited because a directory could not be created
ExitedForDirectory(j) ==
    /\ own[j].pc = "aborted"
    /\ own[j].exc \in {"makedirs_oserror", "alternate_exists"}

\* C25: whenever the process terminates because a directory could not be
\* created (an OSError in make_dir, the alternate staging directory of
\* rip_data, the alternate output directory of check_for_dupe_folder), the
\* status of the job is 'fail' in the store when the process exits.
C25_DirectoryFailureMarksFail ==
    \A j \in Jobs : ExitedForDirectory(j) => db[j].status = "fail"

\* ------------------------------------------ claims on the failure path
\* the dict a call of database_updater was given, by its keys
ArgsOf(keys) == CHOOSE items \in DictArgs : DOMAIN items = keys

\* C26: database_updater sets every field of args on the job object before
\* its first commit attempt and never reverts them: as long as no commit of
\* the call has succeeded, and so when the call has ended with a fatal error
\* or without a successful commit, the job object carries the new values,
\* uncommitted, and the store holds the record as it was.
C26_NoRollbackOnFailure ==
    (gw.fn = "updater" /\ gw.isdict /\ gw.ls.oks = 0) =>
        LET j == gw.job
            args == ArgsOf(gw.keys)
        IN /\ \A k \in gw.keys : mem[j][k] = args[k] /\ k \in dirty[j]
           /\ db[j] = gw.before

\* a call that set status and errors has raised after a 'locked' answer,
\* nothing of it being in the store
C26_Witness ==
    /\ GwUpdaterDone
    /\ gw.ls.result = "RuntimeError"
    /\ gw.ls.sleeps >= 1
    /\ gw.ls.oks = 0
    /\ gw.keys = {"status", "errors"}
    /\ mem[gw.job].status = "fail"
    /\ db[gw.job].status # "fail"

====
